---- MODULE Spec2Model ----
(***************************************************************************)
(* SimilarJSON, the custom expected behavior of                            *)
(* examples/Custom_Evaluation.ipynb: its constructor, is_json_format,      *)
(* check and behavior_description.                                         *)
(*                                                                         *)
(* Similarity scores and thresholds are Python floats; they are written    *)
(* here in thousandths (0.75 is 750, -0.125 is -125).  The scores with a   *)
(* 5 in the third decimal place that the model uses (0.625, 0.875, -0.125) *)
(* are exact binary fractions, so Python's round() resolves them as real   *)
(* ties, to the even neighbour.                                            *)
(***************************************************************************)
EXTENDS Integers, Sequences, FiniteSets, TLC

VARIABLES
    self,                   \* the instance: its attributes set by __init__
    constructed,            \* the attributes as __init__ left them (history)
    pc,                     \* "idle", "check" while check's loop runs, "done"
    perturbed_generations,  \* argument of the current / last check call
    reference_generation,   \* argument of the current / last check call
    test_results,           \* check's local list
    scores,                 \* what compute_similarity returned, per iteration
    printed,                \* lines the current / last call printed
    outcome,                \* how the last finished call ended, and by whom
    check_raised_earlier    \* whether an earlier check call raised (history)

vars == <<self, constructed, pc, perturbed_generations, reference_generation,
          test_results, scores, printed, outcome, check_raised_earlier>>

----------------------------------------------------------------------------
(* Bounds and input sets *)

MaxGens == 2

\* 'Similarity Score', default of similarity_metric_key
DefaultMetricKey == "Similarity Score"

\* 0.75, default of similarity_threshold
DefaultThreshold == 750

\* ndigits of round(score, ndigits=2)
ndigits == 2

\* cosine similarity of a text with itself, the top of the score range
MaxSimilarity == 1000

\* the constructor calls the model explores: (threshold, metric key)
Configs ==
    { <<DefaultThreshold, DefaultMetricKey>>,   \* SimilarJSON(model)
      <<800, DefaultMetricKey>>,                \* the notebook's instance
      <<620, "Similarity">>,
      <<803, "Similarity">>,                    \* three decimal places
      <<MaxSimilarity, DefaultMetricKey>>,      \* the top of the score range
      <<1500, "Similarity">> }                  \* above every score

\* the response strings the model explores
PlainText  == "No popular drink"
ObjAnswer  == "{\"answer\": \"No popular drink\"}"
ObjReply   == "{\"reply\": \"No popular drink\"}"
StrAnswer  == "\"no answer\""
ArrAnswer  == "[\"answer\"]"
NumberDoc  == "7"
NullDoc    == "null"

Generations == {PlainText, ObjAnswer, ObjReply, StrAnswer, ArrAnswer, NumberDoc, NullDoc}

References == {ObjAnswer, PlainText}

\* the values compute_similarity returns for two different texts
Scores == {-125, 625, 796, 800, 804, 875, MaxSimilarity}

\* what compute_similarity raises when the model or the encoding fails
ScoringErrors == {"RuntimeError"}

Notice == "Unable to complete semantic similarity checks"

----------------------------------------------------------------------------
(* Python pieces the class uses *)

Chars(w) ==
    CASE w = "answer" -> <<"a", "n", "s", "w", "e", "r">>
      [] w = "no answer" -> <<"n", "o", " ", "a", "n", "s", "w", "e", "r">>
      [] w = "reply" -> <<"r", "e", "p", "l", "y">>

\* json.loads(response): the parsed value, or JSONDecodeError (a ValueError)
json_loads(response) ==
    CASE response = ObjAnswer -> [ok |-> TRUE, type |-> "dict", keys |-> {"answer"}]
      [] response = ObjReply  -> [ok |-> TRUE, type |-> "dict", keys |-> {"reply"}]
      [] response = StrAnswer -> [ok |-> TRUE, type |-> "str", text |-> "no answer"]
      [] response = ArrAnswer -> [ok |-> TRUE, type |-> "list", items |-> <<"answer">>]
      [] response = NumberDoc -> [ok |-> TRUE, type |-> "int"]
      [] response = NullDoc   -> [ok |-> TRUE, type |-> "NoneType"]
      [] OTHER                -> [ok |-> FALSE, exc |-> "JSONDecodeError"]

\* whether sub occurs in s as a run of consecutive characters
IsSubstring(sub, s) ==
    \E k \in 1..(Len(s) - Len(sub) + 1) : SubSeq(s, k, k + Len(sub) - 1) = sub

\* Python's  'answer' in r : key membership for a dict, element membership for
\* a list, substring for a str, TypeError for a value that is not iterable
py_in(word, r) ==
    CASE r.type = "dict" -> [kind |-> "return", value |-> word \in r.keys]
      [] r.type = "list" -> [kind |-> "return",
                             value |-> \E k \in 1..Len(r.items) : r.items[k] = word]
      [] r.type = "str"  -> [kind |-> "return",
                             value |-> IsSubstring(Chars(word), Chars(r.text))]
      [] OTHER           -> [kind |-> "raise", value |-> "TypeError"]

RECURSIVE Pow10(_)
Pow10(n) == IF n = 0 THEN 1 ELSE 10 * Pow10(n - 1)

\* round(score, ndigits=nd) on thousandths: to the nearest multiple of
\* 10^(3-nd), a tie to the even one
round(score, nd) ==
    LET step == Pow10(3 - nd)
        q    == score \div step
        r    == score % step
    IN  IF 2 * r < step THEN q * step
        ELSE IF 2 * r > step THEN (q + 1) * step
        ELSE IF q % 2 = 0 THEN q * step ELSE (q + 1) * step

----------------------------------------------------------------------------
(* SimilarJSON *)

\* the f-string of __init__, in its three pieces
Descriptor(threshold) ==
    << "Model's generations for perturbations are greater than ",
       threshold,
       " similarity metric compared to the reference generation AND the answer is in JSON format with the key - answer" >>

\* __init__
SimilarJSON(similarity_threshold, similarity_metric_key) ==
    [ similarity_threshold  |-> similarity_threshold,
      similarity_metric_key |-> similarity_metric_key,
      descriptor            |-> Descriptor(similarity_threshold) ]

\* is_json_format(self, response): how the call ends
is_json_format(response) ==
    LET r == json_loads(response)
    IN  IF ~r.ok THEN [kind |-> "return", value |-> FALSE]
        ELSE py_in("answer", r)

\* compute_similarity(reference_sentence, perturbed_sentence): the scores the
\* call can return and the exceptions it can raise
compute_similarity(reference_sentence, perturbed_sentence) ==
    [ returns |-> IF reference_sentence = perturbed_sentence
                  THEN {MaxSimilarity}
                  ELSE Scores,
      raises  |-> ScoringErrors ]

\* test_status from the score, lines 192-195
threshold_status_strict(s, score) ==
    IF score > s.similarity_threshold THEN 1 ELSE 0

threshold_status(s, score) ==
    IF score >= s.similarity_threshold THEN 1 ELSE 0

\* score_dict, lines 197-199
score_dict_unrounded(s, score) ==
    [k \in {s.similarity_metric_key} |-> score]

score_dict_one_decimal(s, score) ==
    [k \in {s.similarity_metric_key} |-> round(score, 1)]

score_dict(s, score) ==
    [k \in {s.similarity_metric_key} |-> round(score, ndigits)]

\* behavior_description(self)
behavior_description_rebuilt(s) == Descriptor(DefaultThreshold)

behavior_description(s) == s.descriptor

\* one pass through the body of check's for loop, given how
\* compute_similarity ended: the tuple appended, or the exception that leaves
\* the try block.  `and` evaluates is_json_format only when the status is 1.
loop_body_always_appends(s, peturbed_gen, sim) ==
    IF sim.kind = "raise"
    THEN [kind |-> "append",
          item |-> <<FALSE, [k \in {s.similarity_metric_key} |-> 0]>>]
    ELSE LET fmt == is_json_format(peturbed_gen)
         IN  [kind |-> "append",
              item |-> << threshold_status(s, sim.value) # 0
                            /\ fmt.kind = "return" /\ fmt.value,
                          score_dict(s, sim.value) >>]

loop_body_ignores_format(s, peturbed_gen, sim) ==
    IF sim.kind = "raise"
    THEN [kind |-> "raise", value |-> sim.value, by |-> "compute_similarity"]
    ELSE [kind |-> "append",
          item |-> << threshold_status(s, sim.value) # 0,
                      score_dict(s, sim.value) >>]

loop_body(s, peturbed_gen, sim) ==
    IF sim.kind = "raise"
    THEN [kind |-> "raise", value |-> sim.value, by |-> "compute_similarity"]
    ELSE LET score == sim.value
             test_status == threshold_status(s, score)
         IN  IF test_status = 0
             THEN [kind |-> "append", item |-> <<FALSE, score_dict(s, score)>>]
             ELSE LET fmt == is_json_format(peturbed_gen)
                  IN  IF fmt.kind = "raise"
                      THEN [kind |-> "raise", value |-> fmt.value,
                            by |-> "is_json_format"]
                      ELSE [kind |-> "append",
                            item |-> <<fmt.value, score_dict(s, score)>>]

----------------------------------------------------------------------------
(* The state machine *)

NoOutcome == [op |-> "none", kind |-> "none", value |-> "none", by |-> "none"]

GenLists == UNION { [1..n -> Generations] : n \in 0..MaxGens }

Init ==
    /\ \E c \in Configs : self = SimilarJSON(c[1], c[2])
    /\ constructed = self
    /\ pc = "idle"
    /\ perturbed_generations = <<>>
    /\ reference_generation = ""
    /\ test_results = <<>>
    /\ scores = <<>>
    /\ printed = <<>>
    /\ outcome = NoOutcome
    /\ check_raised_earlier = FALSE

\* a caller enters check(perturbed_generations, reference_generation)
CallCheck ==
    /\ pc = "idle"
    /\ \E gens \in GenLists, ref \in References :
          /\ perturbed_generations' = gens
          /\ reference_generation' = ref
    /\ pc' = "check"
    /\ test_results' = <<>>
    /\ scores' = <<>>
    /\ printed' = <<>>
    /\ outcome' = NoOutcome
    /\ UNCHANGED <<self, constructed, check_raised_earlier>>

\* one iteration of the for loop, compute_similarity having ended as sim
CheckStep(peturbed_gen, sim) ==
    LET res == loop_body(self, peturbed_gen, sim)
    IN  /\ scores' = Append(scores, sim)
        /\ IF res.kind = "append"
           THEN /\ test_results' = Append(test_results, res.item)
                /\ UNCHANGED <<pc, printed, outcome>>
           ELSE \* except Exception as e: print(...); raise e
                /\ printed' = Append(printed, Notice)
                /\ outcome' = [op |-> "check", kind |-> "raise",
                               value |-> res.value, by |-> res.by]
                /\ pc' = "done"
                /\ UNCHANGED test_results

CheckIterate ==
    /\ pc = "check"
    /\ Len(scores) < Len(perturbed_generations)
    /\ LET peturbed_gen == perturbed_generations[Len(scores) + 1]
           sim == compute_similarity(reference_generation, peturbed_gen)
       IN  \/ \E score \in sim.returns :
                CheckStep(peturbed_gen, [kind |-> "return", value |-> score])
           \/ \E e \in sim.raises :
                CheckStep(peturbed_gen, [kind |-> "raise", value |-> e])
    /\ UNCHANGED <<self, constructed, perturbed_generations, reference_generation,
                   check_raised_earlier>>

\* the loop is exhausted: return test_results
CheckReturn ==
    /\ pc = "check"
    /\ Len(scores) = Len(perturbed_generations)
    /\ outcome' = [op |-> "check", kind |-> "return", value |-> test_results,
                   by |-> "check"]
    /\ pc' = "done"
    /\ UNCHANGED <<self, constructed, perturbed_generations, reference_generation,
                   test_results, scores, printed, check_raised_earlier>>

\* a caller calls is_json_format(response) on its own
CallIsJsonFormat ==
    /\ pc = "idle"
    /\ \E response \in Generations :
          LET res == is_json_format(response)
          IN  /\ outcome' = [op |-> "is_json_format", kind |-> res.kind,
                             value |-> res.value, by |-> "is_json_format"]
              /\ perturbed_generations' = <<response>>
    /\ reference_generation' = ""
    /\ test_results' = <<>>
    /\ scores' = <<>>
    /\ printed' = <<>>
    /\ pc' = "done"
    /\ UNCHANGED <<self, constructed, check_raised_earlier>>

\* a caller calls behavior_description()
CallBehaviorDescription ==
    /\ pc = "idle"
    /\ outcome' = [op |-> "behavior_description", kind |-> "return",
                   value |-> behavior_description(self), by |-> "behavior_description"]
    /\ perturbed_generations' = <<>>
    /\ reference_generation' = ""
    /\ test_results' = <<>>
    /\ scores' = <<>>
    /\ printed' = <<>>
    /\ pc' = "done"
    /\ UNCHANGED <<self, constructed, check_raised_earlier>>

\* the caller has the result (or the exception) and the call's frame is gone
CallerResumes ==
    /\ pc = "done"
    /\ pc' = "idle"
    /\ perturbed_generations' = <<>>
    /\ reference_generation' = ""
    /\ test_results' = <<>>
    /\ scores' = <<>>
    /\ printed' = <<>>
    /\ outcome' = NoOutcome
    /\ check_raised_earlier' =
          (check_raised_earlier \/ (outcome.op = "check" /\ outcome.kind = "raise"))
    /\ UNCHANGED <<self, constructed>>

Next ==
    \/ CallCheck
    \/ CheckIterate
    \/ CheckReturn
    \/ CallIsJsonFormat
    \/ CallBehaviorDescription
    \/ CallerResumes

Spec == Init /\ [][Next]_vars

----------------------------------------------------------------------------
(* Vocabulary of the properties *)

\* the structural requirement in its own words: the response parses as JSON
\* and the parsed value is an object that has the key 'answer'
HasAnswerKey(response) ==
    LET r == json_loads(response)
    IN  r.ok /\ r.type = "dict" /\ "answer" \in r.keys

\* is_json_format(response) returns True
FormatCheckSucceeds(response) ==
    LET f == is_json_format(response)
    IN  f.kind = "return" /\ f.value

\* v is score rounded to two decimal places: a multiple of 0.01, nearest to
\* score, the even one of the two when score lies half way
IsRoundedToTwoPlaces(v, score) ==
    /\ v % 10 = 0
    /\ 2 * (v - score) <= 10
    /\ 2 * (score - v) <= 10
    /\ (2 * (v - score) \in {10, -10} => (v \div 10) % 2 = 0)

CheckFinished == pc = "done" /\ outcome.op = "check"

CheckReturned == CheckFinished /\ outcome.kind = "return"

ScoringRaisedAt(k) == k \in 1..Len(scores) /\ scores[k].kind = "raise"

----------------------------------------------------------------------------
(* Properties *)

\* C1: whenever check has finished and compute_similarity raised for none of
\* the generations, check has returned a list as long as
\* perturbed_generations whose k-th element is the result for the k-th
\* generation (an empty list for an empty input).
C1_OneResultPerGeneration ==
    (CheckFinished /\ \A k \in 1..Len(scores) : scores[k].kind = "return")
    => /\ outcome.kind = "return"
       /\ Len(outcome.value) = Len(perturbed_generations)
       /\ \A k \in 1..Len(perturbed_generations) :
             /\ outcome.value[k][1] =
                   (scores[k].value >= self.similarity_threshold
                      /\ FormatCheckSucceeds(perturbed_generations[k]))
             /\ outcome.value[k][2] = score_dict(self, scores[k].value)

C3_FormatFailureNeverPasses ==
    \A k \in 1..Len(scores) :
        (scores[k].kind = "return" /\ ~HasAnswerKey(perturbed_generations[k]))
        => /\ k <= Len(test_results)
           /\ test_results[k][1] = FALSE

\* C4: a call of is_json_format ends by returning a boolean, False when the
\* response is not JSON, and True only when the parsed value has the key
\* 'answer'.
C4_IsJsonFormatTotal ==
    (pc = "done" /\ outcome.op = "is_json_format")
    => /\ outcome.kind = "return"
       /\ outcome.value \in BOOLEAN
       /\ (~json_loads(perturbed_generations[1]).ok => outcome.value = FALSE)
       /\ (outcome.value = TRUE => HasAnswerKey(perturbed_generations[1]))

\* C5: when compute_similarity raises for the k-th generation, check has
\* printed the notice and ended by raising that exception; the k-th
\* generation is the last one scored, it has no result, and the k-1 results
\* computed before it are not returned.
C5_ScoringErrorPropagates ==
    \A k \in 1..Len(scores) :
        scores[k].kind = "raise"
        => /\ k = Len(scores)
           /\ pc = "done"
           /\ outcome.op = "check"
           /\ outcome.kind = "raise"
           /\ outcome.by = "compute_similarity"
           /\ outcome.value = scores[k].value
           /\ printed = <<Notice>>
           /\ Len(test_results) = k - 1

C5_Witness ==
    /\ ScoringRaisedAt(2)
    /\ Len(test_results) = 1
    /\ outcome.kind = "raise"

C7_OneMetricRoundedToTwoPlaces ==
    \A k \in 1..Len(test_results) :
        /\ DOMAIN test_results[k][2] = {self.similarity_metric_key}
        /\ IsRoundedToTwoPlaces(test_results[k][2][self.similarity_metric_key],
                                scores[k].value)

C7_Witness ==
    /\ CheckReturned
    /\ self.similarity_metric_key # DefaultMetricKey
    /\ \E j, k \in 1..Len(outcome.value) :
          /\ scores[j].value = 625
          /\ outcome.value[j][2][self.similarity_metric_key] = 620
          /\ scores[k].value = 875
          /\ outcome.value[k][2][self.similarity_metric_key] = 880

\* C8: the instance's attributes are the ones the constructor set, whatever
\* calls were made (check calls that raised included); behavior_description
\* returns the descriptor built at construction; and a list that check
\* returns is the one its arguments, the scores and the construction-time
\* configuration determine.
C8_NoCrossCallState ==
    /\ self = constructed
    /\ self.descriptor = Descriptor(constructed.similarity_threshold)
    /\ (pc = "done" /\ outcome.op = "behavior_description"
          => outcome.value = Descriptor(constructed.similarity_threshold))
    /\ (CheckReturned
          => \A k \in 1..Len(outcome.value) :
                outcome.value[k] =
                    << threshold_status(constructed, scores[k].value) = 1
                         /\ FormatCheckSucceeds(perturbed_generations[k]),
                       score_dict(constructed, scores[k].value) >>)

C8_Witness ==
    /\ check_raised_earlier
    /\ pc = "done"
    /\ outcome.op = "behavior_description"
    /\ outcome.value = constructed.descriptor

\* C9: every result that check marks as pass belongs to a generation whose
\* score is greater than the threshold the descriptor states and that is a
\* JSON object with the key 'answer'.
C9_PassMeansWhatTheDescriptorSays ==
    \A k \in 1..Len(test_results) :
        test_results[k][1] = TRUE
        => /\ scores[k].value > self.descriptor[2]
           /\ HasAnswerKey(perturbed_generations[k])

\* C10: when similarity_threshold has at most two decimal places, every
\* result that check marks as pass reports a (rounded) score at or above
\* similarity_threshold.
C10_PassingScoreShownAtOrAboveThreshold ==
    self.similarity_threshold % 10 = 0
    => \A k \in 1..Len(test_results) :
          test_results[k][1] = TRUE
          => test_results[k][2][self.similarity_metric_key]
                >= self.similarity_threshold

C10_Witness ==
    /\ CheckReturned
    /\ self.similarity_threshold % 10 = 0
    /\ \E k \in 1..Len(outcome.value) :
          /\ outcome.value[k][1] = TRUE
          /\ outcome.value[k][2][self.similarity_metric_key] < scores[k].value
          /\ outcome.value[k][2][self.similarity_metric_key]
                = self.similarity_threshold

====
